---- MODULE Spec2Model ----
(***************************************************************************)
(* Conway's Game of Life on a toroidal grid (class GameOfLife): seeding    *)
(* from the pattern catalog, the generation step, and the extinction /     *)
(* loop detector, driven by GameOfLife::run.                               *)
(***************************************************************************)
EXTENDS Integers, Sequences, FiniteSets, TLC

\* ------------------------------------------------------------------ bounds
\* Largest number of grid rows and of grid columns that is explored.
MaxDim == 5
\* Random seeding is enumerated on grids of at most this many cells.
MaxRandomCells == 9
\* The run loop is explored up to this generation.
MaxGen == 6
\* Grids of at most this many cells are run up to the detection horizon.
MaxHorizonCells == 4
\* Largest terminal height and width (ws_row, ws_col) that is explored.
MaxWsRow == 7
MaxWsCol == 5

\* The while (true) driver is explored this many generations past
\* MAX_GENERATIONS.
MaxOverrun == 1

\* --------------------------------------------------------- program constants
ALIVE == TRUE
DEAD == FALSE
MAX_GENERATIONS == 10000
\* The fixed grid of the free-function variant.
ROWS == 40
COLS == 40

\* The two variants of the driver that share the simulation code.
Variants == {"main", "part_001"}

PATTERNS ==
  << [name |-> "Random", cells |-> << >>],
     [name |-> "Glider", cells |-> << <<0,1>>, <<1,2>>, <<2,0>>, <<2,1>>, <<2,2>> >>],
     [name |-> "Blinker", cells |-> << <<0,0>>, <<1,0>>, <<2,0>> >>],
     [name |-> "Toad", cells |-> << <<0,1>>, <<0,2>>, <<0,3>>, <<1,0>>, <<1,1>>, <<1,2>> >>],
     [name |-> "Beacon", cells |-> << <<0,0>>, <<0,1>>, <<1,0>>, <<2,3>>, <<3,2>>, <<3,3>> >>],
     [name |-> "Block", cells |-> << <<0,0>>, <<0,1>>, <<1,0>>, <<1,1>> >>],
     [name |-> "Loaf", cells |-> << <<0,1>>, <<0,2>>, <<1,0>>, <<1,3>>, <<2,1>>, <<2,3>>, <<3,2>> >>],
     [name |-> "Boat", cells |-> << <<0,0>>, <<0,1>>, <<1,0>>, <<1,2>>, <<2,1>> >>],
     [name |-> "Pulsar", cells |-> <<
        <<2,4>>, <<2,5>>, <<2,6>>, <<2,10>>, <<2,11>>, <<2,12>>,
        <<4,2>>, <<4,7>>, <<4,9>>, <<4,14>>,
        <<5,2>>, <<5,7>>, <<5,9>>, <<5,14>>,
        <<6,2>>, <<6,7>>, <<6,9>>, <<6,14>>,
        <<7,4>>, <<7,5>>, <<7,6>>, <<7,10>>, <<7,11>>, <<7,12>>,
        <<9,4>>, <<9,5>>, <<9,6>>, <<9,10>>, <<9,11>>, <<9,12>>,
        <<10,2>>, <<10,7>>, <<10,9>>, <<10,14>>,
        <<11,2>>, <<11,7>>, <<11,9>>, <<11,14>>,
        <<12,2>>, <<12,7>>, <<12,9>>, <<12,14>>,
        <<14,4>>, <<14,5>>, <<14,6>>, <<14,10>>, <<14,11>>, <<14,12>> >>],
     [name |-> "Glider Gun", cells |-> <<
        <<0,4>>, <<0,5>>, <<1,4>>, <<1,5>>, <<10,4>>, <<10,5>>, <<10,6>>, <<11,3>>, <<11,7>>,
        <<12,2>>, <<12,8>>, <<13,2>>, <<13,8>>, <<14,5>>, <<15,3>>, <<15,7>>, <<16,4>>,
        <<16,5>>, <<16,6>>, <<17,5>>, <<20,2>>, <<20,3>>, <<20,4>>, <<21,2>>, <<21,3>>,
        <<21,4>>, <<22,1>>, <<22,5>>, <<24,0>>, <<24,1>>, <<24,5>>, <<24,6>> >>],
     [name |-> "five", cells |-> << <<0,-1>>, <<0,0>>, <<-1,0>>, <<1,0>>, <<1,1>> >>],
     [name |-> "Penta-decathlon", cells |-> <<
        <<-5,0>>,
        <<-4,-1>>, <<-4,1>>,
        <<-3,-2>>, <<-3,2>>,
        <<-2,-2>>, <<-2,2>>,
        <<-1,-2>>, <<-1,2>>,
        <<0,-2>>, <<0,2>>,
        <<1,-2>>, <<1,2>>,
        <<2,-2>>, <<2,2>>,
        <<3,-1>>, <<3,1>>,
        <<4,0>> >>],
     [name |-> "butterfly", cells |-> <<
        <<-6,2>>, <<-5,2>>, <<0,2>>, <<1,2>>,
        <<-5,3>>, <<-4,3>>, <<-2,3>>, <<-1,3>>,
        <<-6,4>>, <<-4,4>>, <<-2,4>>, <<0,4>>, <<2,4>>,
        <<-5,5>>, <<-4,5>>, <<-3,5>>, <<-1,5>>, <<0,5>>, <<1,5>>,
        <<-5,6>>, <<-3,6>>, <<-1,6>>, <<1,6>>, <<3,6>>,
        <<-4,7>>, <<-3,7>>, <<-2,7>>, <<0,7>>, <<1,7>>, <<2,7>>,
        <<-4,9>>, <<-3,9>>, <<-2,9>>, <<0,9>>, <<1,9>>, <<2,9>>,
        <<-5,10>>, <<-3,10>>, <<-1,10>>, <<1,10>>, <<3,10>>,
        <<-5,11>>, <<-4,11>>, <<-3,11>>, <<-1,11>>, <<0,11>>, <<1,11>>,
        <<-6,12>>, <<-4,12>>, <<-2,12>>, <<0,12>>, <<2,12>>,
        <<-5,13>>, <<-4,13>>, <<-2,13>>, <<-1,13>>,
        <<-6,14>>, <<-5,14>>, <<0,14>>, <<1,14>> >>] >>

\* ------------------------------------------------------------------- state
VARIABLES
  variant,            \* which driver runs the simulation
  rows, cols,         \* grid dimensions
  grid,               \* grid[i][j], i in 0..rows-1, j in 0..cols-1
  generation,
  currentAliveCells,
  totalBirths,
  totalDeaths,
  loopLength,
  pattern,            \* the selected Pattern
  generationHistory,  \* serialized grid -> generation
  gen,                \* loop variable of run()
  pc,                 \* position inside run()
  past                \* past[g+1] is the grid of generation g

vars == << variant, rows, cols, grid, generation, currentAliveCells,
           totalBirths, totalDeaths, loopLength, pattern,
           generationHistory, gen, pc, past >>

\* ---------------------------------------------------------------- helpers
\* The % of C++ on int: the remainder takes the sign of the dividend.
CMod(a, b) == IF a >= 0 THEN a % b ELSE 0 - ((0 - a) % b)

\* getTerminalSize: << rows, cols >> from the window size the ioctl
\* reports, or 24 x 80 when the ioctl fails.
getTerminalSize(ioctlFailed, ws_row, ws_col) ==
  IF ioctlFailed THEN << 24, 80 >>
  ELSE << ws_row - 5, ws_col \div 2 >>

\* std::vector<std::vector<bool>>(r, std::vector<bool>(c, false))
emptyGrid(r, c) == [i \in 0..(r - 1) |-> [j \in 0..(c - 1) |-> DEAD]]

\* A default-constructed Pattern.
noPattern == [name |-> "", cells |-> << >>]

\* The (dRow, dCol) pairs in the order the two nested loops visit them.
Deltas == << <<-1,-1>>, <<-1,0>>, <<-1,1>>,
             <<0,-1>>,  <<0,0>>,  <<0,1>>,
             <<1,-1>>,  <<1,0>>,  <<1,1>> >>

\* countLoop on a grid with edges: a neighbour beyond the border is skipped
\* instead of being wrapped to the opposite side.
RECURSIVE countLoopNoWrap(_, _, _, _)
countLoopNoWrap(g, row, col, k) ==
  IF k > Len(Deltas) THEN 0
  ELSE LET dRow == Deltas[k][1]
           dCol == Deltas[k][2]
           neighborRow == row + dRow
           neighborCol == col + dCol
       IN IF (dRow = 0 /\ dCol = 0)
             \/ neighborRow \notin 0..(rows - 1)
             \/ neighborCol \notin 0..(cols - 1)
          THEN countLoopNoWrap(g, row, col, k + 1)
          ELSE (IF g[neighborRow][neighborCol] = ALIVE THEN 1 ELSE 0)
               + countLoopNoWrap(g, row, col, k + 1)

RECURSIVE countLoop(_, _, _, _)
countLoop(g, row, col, k) ==
  IF k > Len(Deltas) THEN 0
  ELSE LET dRow == Deltas[k][1]
           dCol == Deltas[k][2]
       IN IF dRow = 0 /\ dCol = 0
          THEN countLoop(g, row, col, k + 1)
          ELSE LET neighborRow == CMod(row + dRow + rows, rows)
                   neighborCol == CMod(col + dCol + cols, cols)
               IN (IF g[neighborRow][neighborCol] = ALIVE THEN 1 ELSE 0)
                  + countLoop(g, row, col, k + 1)

countAliveNeighbors(g, row, col) == countLoop(g, row, col, 1)

\* serializeGrid that walks the first row once per row of the grid.
serializeGridFirstRow(g) ==
  [k \in 1..(rows * cols) |->
     IF g[0][(k - 1) % cols] THEN "1" ELSE "0"]

serializeGrid(g) ==
  [k \in 1..(rows * cols) |->
     IF g[(k - 1) \div cols][(k - 1) % cols] THEN "1" ELSE "0"]

areAllDead(g) ==
  \A i \in 0..(rows - 1) : \A j \in 0..(cols - 1) : g[i][j] # ALIVE


\* ------------------------------------------------------------ selectPattern
\* What std::cin >> choice can deliver: a failed extraction or an int.
Inputs == [fail : BOOLEAN, value : (0 - 1)..Len(PATTERNS)]

validChoice(in) ==
  ~(in.fail \/ in.value < 0 \/ in.value >= Len(PATTERNS))

\* One pass of selectPattern that forces a number outside the catalog to
\* the nearest index instead of asking again.
selectOutcomeClamped(in, pat) ==
  IF in.fail
  THEN [pattern |-> pat, pc |-> "select"]
  ELSE LET i == IF in.value < 0 THEN 0
                ELSE IF in.value >= Len(PATTERNS) THEN Len(PATTERNS) - 1
                ELSE in.value
       IN [pattern |-> PATTERNS[i + 1], pc |-> "seed"]

\* One pass of the while (true) of selectPattern on the input in: the
\* pattern held afterwards, and whether the loop is left ("seed") or the
\* prompt is shown again ("select").
selectOutcome(in, pat) ==
  IF validChoice(in)
  THEN [pattern |-> PATTERNS[in.value + 1], pc |-> "seed"]
  ELSE [pattern |-> pat, pc |-> "select"]

\* ---------------------------------------------------------------- setPattern
\* The cell one offset of pattern.cells is written to.
seedTarget(off) ==
  LET centerRow == rows \div 2
      centerCol == cols \div 2
  IN << CMod(centerRow + off[1] + rows, rows),
        CMod(centerCol + off[2] + cols, cols) >>

\* An index that C++'s % leaves negative lies outside the vector.
inGrid(rc) == rc[1] \in 0..(rows - 1) /\ rc[2] \in 0..(cols - 1)

\* The effect of the loop over p.cells: every target inside the grid is set
\* ALIVE, the counter is incremented once per offset, and `stray` tells
\* whether some target lies outside the grid.
seedShaped(g, alive, p) ==
  [grid |-> [i \in 0..(rows - 1) |-> [j \in 0..(cols - 1) |->
               IF \E k \in 1..Len(p.cells) : seedTarget(p.cells[k]) = << i, j >>
               THEN ALIVE ELSE g[i][j]]],
   currentAliveCells |-> alive + Len(p.cells),
   stray |-> \E k \in 1..Len(p.cells) : ~inGrid(seedTarget(p.cells[k]))]

\* The counting done by the random branch: one increment per cell set ALIVE.
RECURSIVE randomCount(_, _)
randomCount(g, k) ==
  IF k >= rows * cols THEN 0
  ELSE (IF g[k \div cols][k % cols] = ALIVE THEN 1 ELSE 0)
       + randomCount(g, k + 1)

\* ----------------------------------------------------- computeNextGeneration
\* cellStep updating the grid in place: neighbours are counted on the grid
\* that already holds the cells updated earlier in the same step.
cellStepInPlace(acc, g, i, j) ==
  LET neighbors == countAliveNeighbors(acc.newGrid, i, j)
  IN IF g[i][j] = ALIVE
     THEN IF neighbors < 2 \/ neighbors > 3
          THEN [acc EXCEPT !.newGrid[i][j] = DEAD,
                           !.totalDeaths = @ + 1,
                           !.currentAliveCells = @ - 1]
          ELSE acc
     ELSE IF neighbors = 3
          THEN [acc EXCEPT !.newGrid[i][j] = ALIVE,
                           !.totalBirths = @ + 1,
                           !.currentAliveCells = @ + 1]
          ELSE acc

\* cellStep that books a death on the births counter.
cellStepDeathsAsBirths(acc, g, i, j) ==
  LET neighbors == countAliveNeighbors(g, i, j)
  IN IF g[i][j] = ALIVE
     THEN IF neighbors < 2 \/ neighbors > 3
          THEN [acc EXCEPT !.newGrid[i][j] = DEAD,
                           !.totalBirths = @ + 1,
                           !.currentAliveCells = @ - 1]
          ELSE acc
     ELSE IF neighbors = 3
          THEN [acc EXCEPT !.newGrid[i][j] = ALIVE,
                           !.totalBirths = @ + 1,
                           !.currentAliveCells = @ + 1]
          ELSE acc

\* The body of the two nested loops for cell (i, j): neighbours are read
\* from the current grid g, the result is written to acc.newGrid.
cellStep(acc, g, i, j) ==
  LET neighbors == countAliveNeighbors(g, i, j)
  IN IF g[i][j] = ALIVE
     THEN IF neighbors < 2 \/ neighbors > 3
          THEN [acc EXCEPT !.newGrid[i][j] = DEAD,
                           !.totalDeaths = @ + 1,
                           !.currentAliveCells = @ - 1]
          ELSE acc
     ELSE IF neighbors = 3
          THEN [acc EXCEPT !.newGrid[i][j] = ALIVE,
                           !.totalBirths = @ + 1,
                           !.currentAliveCells = @ + 1]
          ELSE acc

RECURSIVE stepLoop(_, _, _)
stepLoop(acc, g, k) ==
  IF k >= rows * cols THEN acc
  ELSE stepLoop(cellStep(acc, g, k \div cols, k % cols), g, k + 1)

nextGeneration(g, births, deaths, alive) ==
  stepLoop([newGrid |-> g, totalBirths |-> births,
            totalDeaths |-> deaths, currentAliveCells |-> alive], g, 0)

\* ------------------------------------------------------------------ detectLoop
emptyHistory == [k \in {} |-> 0]

\* recordState that stores nothing.
recordStateNothing(h, key, g) == h

\* recordState that keeps the index of a key that is already present.
recordStateKeepFirst(h, key, g) ==
  [k \in (DOMAIN h) \cup {key} |->
     IF k \in DOMAIN h THEN h[k] ELSE g]

\* recordState that forgets every other key.
recordStateOnly(h, key, g) == [k \in {key} |-> g]

\* generationHistory[currentState] = generation
recordState(h, key, g) ==
  [k \in (DOMAIN h) \cup {key} |-> IF k = key THEN g ELSE h[k]]

\* detectLoop without the early return for an all-dead grid.
detectLoopNoExtinction(g, genNo, len, h) ==
  LET currentState == serializeGrid(g)
  IN [loopLength |-> IF currentState \in DOMAIN h
                     THEN genNo - h[currentState]
                     ELSE len,
      generationHistory |-> recordState(h, currentState, genNo)]

\* detectLoop with the period counted from the generation after the hit.
detectLoopOffByOne(g, genNo, len, h) ==
  IF areAllDead(g)
  THEN [loopLength |-> 0 - 1, generationHistory |-> h]
  ELSE LET currentState == serializeGrid(g)
       IN [loopLength |-> IF currentState \in DOMAIN h
                          THEN genNo - h[currentState] - 1
                          ELSE len,
           generationHistory |-> recordState(h, currentState, genNo)]

\* detectLoop that records the all-dead grid before it returns.
detectLoopRecordsExtinct(g, genNo, len, h) ==
  IF areAllDead(g)
  THEN [loopLength |-> 0 - 1,
        generationHistory |-> recordState(h, serializeGrid(g), genNo)]
  ELSE LET currentState == serializeGrid(g)
       IN [loopLength |-> IF currentState \in DOMAIN h
                          THEN genNo - h[currentState]
                          ELSE len,
           generationHistory |-> recordState(h, currentState, genNo)]

detectLoop(g, genNo, len, h) ==
  IF areAllDead(g)
  THEN [loopLength |-> 0 - 1, generationHistory |-> h]
  ELSE LET currentState == serializeGrid(g)
       IN [loopLength |-> IF currentState \in DOMAIN h
                          THEN genNo - h[currentState]
                          ELSE len,
           generationHistory |-> recordState(h, currentState, genNo)]

\* displayState that shows one more than the size of the history.
displayStateOneBased(len, h) ==
  IF len > 0
  THEN [message |-> "LOOP DETECTED", number |-> Cardinality(DOMAIN h) + 1]
  ELSE IF len = 0 - 1
  THEN [message |-> "ALL CELLS HAVE DIED", number |-> 0]
  ELSE [message |-> "", number |-> 0]

\* displayState: the message it shows and the number in it (the size of the
\* history for a loop; 0 where the message carries no number).
displayState(len, h) ==
  IF len > 0
  THEN [message |-> "LOOP DETECTED", number |-> Cardinality(DOMAIN h)]
  ELSE IF len = 0 - 1
  THEN [message |-> "ALL CELLS HAVE DIED", number |-> 0]
  ELSE [message |-> "", number |-> 0]

\* ------------------------------------------------------------------- actions
Init ==
  /\ variant \in Variants
  /\ rows \in 1..MaxDim
  /\ cols \in 1..MaxDim
  /\ grid = emptyGrid(rows, cols)
  /\ generation = 0
  /\ currentAliveCells = 0
  /\ totalBirths = 0
  /\ totalDeaths = 0
  /\ loopLength = 0
  /\ pattern = noPattern
  /\ generationHistory = emptyHistory
  /\ gen = 0
  /\ pc = "select"
  /\ past = << >>

\* One pass of the prompt loop of selectPattern.
SelectPattern ==
  /\ pc = "select"
  /\ \E in \in Inputs :
       /\ pattern' = selectOutcome(in, pattern).pattern
       /\ pc' = selectOutcome(in, pattern).pc
  /\ UNCHANGED << variant, rows, cols, grid, generation, currentAliveCells,
                  totalBirths, totalDeaths, loopLength, generationHistory,
                  gen, past >>

\* setPattern with a catalog shape, every index inside the grid.
SetPatternShaped ==
  /\ pc = "seed"
  /\ pattern.name # "Random"
  /\ LET s == seedShaped(grid, currentAliveCells, pattern)
     IN /\ ~s.stray
        /\ grid' = s.grid
        /\ currentAliveCells' = s.currentAliveCells
        /\ past' = << s.grid >>
  /\ pc' = "loop"
  /\ UNCHANGED << variant, rows, cols, generation, totalBirths, totalDeaths,
                  loopLength, pattern, generationHistory, gen >>

\* setPattern with a catalog shape when an index falls outside the grid:
\* undefined behaviour.  Either the process is killed, or the stray writes
\* land outside the grid and execution goes on.
SetPatternStray ==
  /\ pc = "seed"
  /\ pattern.name # "Random"
  /\ LET s == seedShaped(grid, currentAliveCells, pattern)
     IN /\ s.stray
        /\ \E killed \in BOOLEAN :
             IF killed
             THEN /\ pc' = "crashed"
                  /\ UNCHANGED << grid, currentAliveCells, past >>
             ELSE /\ pc' = "loop"
                  /\ grid' = s.grid
                  /\ currentAliveCells' = s.currentAliveCells
                  /\ past' = << s.grid >>
  /\ UNCHANGED << variant, rows, cols, generation, totalBirths, totalDeaths,
                  loopLength, pattern, generationHistory, gen >>

\* setPattern with "Random": every cell is drawn independently.
SetPatternRandom ==
  /\ pc = "seed"
  /\ pattern.name = "Random"
  /\ rows * cols <= MaxRandomCells
  /\ \E g \in [0..(rows - 1) -> [0..(cols - 1) -> BOOLEAN]] :
       /\ grid' = g
       /\ currentAliveCells' = currentAliveCells + randomCount(g, 0)
       /\ past' = << g >>
  /\ pc' = "loop"
  /\ UNCHANGED << variant, rows, cols, generation, totalBirths, totalDeaths,
                  loopLength, pattern, generationHistory, gen >>

\* The head of the for loop of run(): the loop test, displayGrid and (in
\* part_001) the test for extinction pass, the body is entered.
LoopEnter ==
  /\ pc = "loop"
  /\ gen < MAX_GENERATIONS
  /\ ~(variant = "part_001" /\ loopLength = 0 - 1)
  /\ generation < MaxGen
  /\ pc' = "advance"
  /\ UNCHANGED << variant, rows, cols, grid, generation, currentAliveCells,
                  totalBirths, totalDeaths, loopLength, pattern,
                  generationHistory, gen, past >>

\* The for loop of run() ends: the cap is reached or part_001 breaks.
LoopExit ==
  /\ pc = "loop"
  /\ (gen >= MAX_GENERATIONS \/ (variant = "part_001" /\ loopLength = 0 - 1))
  /\ pc' = "done"
  /\ UNCHANGED << variant, rows, cols, grid, generation, currentAliveCells,
                  totalBirths, totalDeaths, loopLength, pattern,
                  generationHistory, gen, past >>

\* computeNextGeneration that counts a generation only when the grid changed.
ComputeNextGenerationCountsChanges ==
  /\ pc = "advance"
  /\ LET n == nextGeneration(grid, totalBirths, totalDeaths, currentAliveCells)
     IN /\ grid' = n.newGrid
        /\ totalBirths' = n.totalBirths
        /\ totalDeaths' = n.totalDeaths
        /\ currentAliveCells' = n.currentAliveCells
        /\ past' = Append(past, n.newGrid)
        /\ generation' = IF n.newGrid = grid THEN generation ELSE generation + 1
  /\ pc' = "detect"
  /\ UNCHANGED << variant, rows, cols, loopLength, pattern,
                  generationHistory, gen >>

ComputeNextGeneration ==
  /\ pc = "advance"
  /\ LET n == nextGeneration(grid, totalBirths, totalDeaths, currentAliveCells)
     IN /\ grid' = n.newGrid
        /\ totalBirths' = n.totalBirths
        /\ totalDeaths' = n.totalDeaths
        /\ currentAliveCells' = n.currentAliveCells
        /\ past' = Append(past, n.newGrid)
  /\ generation' = generation + 1
  /\ pc' = "detect"
  /\ UNCHANGED << variant, rows, cols, loopLength, pattern,
                  generationHistory, gen >>

\* The number of generations within which detection is due on this grid.
DetectHorizon == 2 ^ (rows * cols) + 1

\* LoopEnter, explored up to the detection horizon of the grid.
LoopEnterHorizon ==
  /\ pc = "loop"
  /\ gen < MAX_GENERATIONS
  /\ ~(variant = "part_001" /\ loopLength = 0 - 1)
  /\ generation < DetectHorizon
  /\ pc' = "advance"
  /\ UNCHANGED << variant, rows, cols, grid, generation, currentAliveCells,
                  totalBirths, totalDeaths, loopLength, pattern,
                  generationHistory, gen, past >>

\* detectLoop, then the gen++ of the for loop.
\* DetectLoop run with the generation count as it was before the step.
DetectLoopZeroBased ==
  /\ pc = "detect"
  /\ LET d == detectLoop(grid, generation - 1, loopLength, generationHistory)
     IN /\ loopLength' = d.loopLength
        /\ generationHistory' = d.generationHistory
  /\ gen' = gen + 1
  /\ pc' = "loop"
  /\ UNCHANGED << variant, rows, cols, grid, generation, currentAliveCells,
                  totalBirths, totalDeaths, pattern, past >>

DetectLoop ==
  /\ pc = "detect"
  /\ LET d == detectLoop(grid, generation, loopLength, generationHistory)
     IN /\ loopLength' = d.loopLength
        /\ generationHistory' = d.generationHistory
  /\ gen' = gen + 1
  /\ pc' = "loop"
  /\ UNCHANGED << variant, rows, cols, grid, generation, currentAliveCells,
                  totalBirths, totalDeaths, pattern, past >>

Next ==
  \/ SelectPattern
  \/ SetPatternShaped
  \/ SetPatternStray
  \/ SetPatternRandom
  \/ LoopEnter
  \/ LoopExit
  \/ ComputeNextGeneration
  \/ DetectLoop

Spec == Init /\ [][Next]_vars

\* ------------------------------------ construction from the terminal size
\* The constructor on a terminal of ws_row x ws_col characters.  A negative
\* row count makes the vector constructor throw (the count converts to a
\* size above max_size), so construction fails; a count of 0 is accepted.
\* The 24 x 80 fallback of a failed ioctl is not explored.
InitTerminal ==
  /\ variant \in Variants
  /\ \E ws_row \in 0..MaxWsRow, ws_col \in 0..MaxWsCol :
       /\ rows = getTerminalSize(FALSE, ws_row, ws_col)[1]
       /\ cols = getTerminalSize(FALSE, ws_row, ws_col)[2]
  /\ IF rows < 0 \/ cols < 0
     THEN grid = << >> /\ pc = "failed"
     ELSE grid = emptyGrid(rows, cols) /\ pc = "select"
  /\ generation = 0
  /\ currentAliveCells = 0
  /\ totalBirths = 0
  /\ totalDeaths = 0
  /\ loopLength = 0
  /\ pattern = noPattern
  /\ generationHistory = emptyHistory
  /\ gen = 0
  /\ past = << >>

\* setPattern with a catalog shape on a grid with rows = 0 or cols = 0: the
\* first offset evaluates % 0, undefined behaviour.  Either the process is
\* killed, or the index is garbage and the writes land outside the (empty)
\* grid.
SetPatternModuloZero ==
  /\ pc = "seed"
  /\ pattern.name # "Random"
  /\ rows = 0 \/ cols = 0
  /\ Len(pattern.cells) > 0
  /\ \E killed \in BOOLEAN :
       IF killed
       THEN /\ pc' = "crashed"
            /\ UNCHANGED << currentAliveCells, past >>
       ELSE /\ pc' = "loop"
            /\ currentAliveCells' = currentAliveCells + Len(pattern.cells)
            /\ past' = << grid >>
  /\ UNCHANGED << variant, rows, cols, grid, generation, totalBirths,
                  totalDeaths, loopLength, pattern, generationHistory, gen >>

NextTerminal ==
  \/ SelectPattern
  \/ (rows > 0 /\ cols > 0 /\ SetPatternShaped)
  \/ (rows > 0 /\ cols > 0 /\ SetPatternStray)
  \/ SetPatternModuloZero
  \/ SetPatternRandom
  \/ LoopEnter
  \/ LoopExit
  \/ ComputeNextGeneration
  \/ DetectLoop

SpecTerminal == InitTerminal /\ [][NextTerminal]_vars

\* ------------------------------------------- the free-function variant
\* setInitialPattern: a glider written at fixed offsets from the centre.
setInitialPattern(g) ==
  LET centerRow == rows \div 2
      centerCol == cols \div 2
  IN [g EXCEPT ![centerRow][centerCol + 1] = ALIVE,
               ![centerRow + 1][centerCol + 2] = ALIVE,
               ![centerRow + 2][centerCol] = ALIVE,
               ![centerRow + 2][centerCol + 1] = ALIVE,
               ![centerRow + 2][centerCol + 2] = ALIVE]

\* 1 for a live cell, 0 for a dead one.
aliveCount(x) == IF x = ALIVE THEN 1 ELSE 0

\* The free function nextGeneration: a copy of the grid in which the cells
\* that die or are born are overwritten; it keeps no counters.  The two
\* loops of the free countAliveNeighbors are written out: up, mid and down
\* are the rows at dRow = -1, 0, 1, and l, j, r the columns at dCol = -1, 0, 1.
freeNextGeneration(g) ==
  [i \in 0..(rows - 1) |->
     LET up == g[CMod(i - 1 + rows, rows)]
         mid == g[i]
         down == g[CMod(i + 1 + rows, rows)]
     IN [j \in 0..(cols - 1) |->
          LET l == CMod(j - 1 + cols, cols)
              r == CMod(j + 1 + cols, cols)
              neighbors ==
                aliveCount(up[l]) + aliveCount(up[j]) + aliveCount(up[r])
                + aliveCount(mid[l]) + aliveCount(mid[r])
                + aliveCount(down[l]) + aliveCount(down[j]) + aliveCount(down[r])
          IN IF mid[j] = ALIVE
             THEN (IF neighbors < 2 \/ neighbors > 3 THEN DEAD ELSE mid[j])
             ELSE (IF neighbors = 3 THEN ALIVE ELSE mid[j])]]

\* main of the free-function variant up to the call of setInitialPattern.
InitFree ==
  /\ variant = "part_002"
  /\ rows = ROWS
  /\ cols = COLS
  /\ grid = emptyGrid(ROWS, COLS)
  /\ generation = 0
  /\ currentAliveCells = 0
  /\ totalBirths = 0
  /\ totalDeaths = 0
  /\ loopLength = 0
  /\ pattern = noPattern
  /\ generationHistory = emptyHistory
  /\ gen = 0
  /\ pc = "seed"
  /\ past = << >>

FreeSetInitialPattern ==
  /\ pc = "seed"
  /\ grid' = setInitialPattern(grid)
  /\ pc' = "loop"
  /\ UNCHANGED << variant, rows, cols, generation, currentAliveCells,
                  totalBirths, totalDeaths, loopLength, pattern,
                  generationHistory, gen, past >>

\* One pass of while (true): display, sleep, grid = nextGeneration(grid),
\* generation++.
FreeIterate ==
  /\ pc = "loop"
  /\ generation < MAX_GENERATIONS + MaxOverrun
  /\ grid' = freeNextGeneration(grid)
  /\ generation' = generation + 1
  /\ UNCHANGED << variant, rows, cols, currentAliveCells, totalBirths,
                  totalDeaths, loopLength, pattern, generationHistory,
                  gen, pc, past >>

NextFree ==
  \/ FreeSetInitialPattern
  \/ FreeIterate

SpecFree == InitFree /\ [][NextFree]_vars

\* The same program on small grids, each run up to its detection horizon.
InitHorizon ==
  /\ Init
  /\ rows * cols <= MaxHorizonCells

NextHorizon ==
  \/ SelectPattern
  \/ SetPatternShaped
  \/ SetPatternStray
  \/ SetPatternRandom
  \/ LoopEnterHorizon
  \/ LoopExit
  \/ ComputeNextGeneration
  \/ DetectLoop

SpecHorizon == InitHorizon /\ [][NextHorizon]_vars

\* ----------------------------------------------------------- type invariant
TypeOK ==
  /\ variant \in Variants
  /\ rows \in 1..MaxDim /\ cols \in 1..MaxDim
  /\ grid \in [0..(rows - 1) -> [0..(cols - 1) -> BOOLEAN]]
  /\ generation \in 0..MaxGen
  /\ gen \in 0..MaxGen
  /\ loopLength \in (0 - 1)..MaxGen
  /\ pc \in {"select", "seed", "loop", "advance", "detect", "done", "crashed"}

\* -------------------------------------------------- vocabulary of the claims
Cells == (0..(rows - 1)) \X (0..(cols - 1))

liveCells(g) == {c \in Cells : g[c[1]][c[2]]}

\* The eight toroidal neighbour offsets.
NeighbourOffsets == ({0 - 1, 0, 1} \X {0 - 1, 0, 1}) \ {<< 0, 0 >>}

\* Number of offsets whose wrapped target is alive in g.
liveNeighbours(g, c) ==
  Cardinality({d \in NeighbourOffsets :
                 g[(c[1] + d[1]) % rows][(c[2] + d[2]) % cols]})

\* The Game of Life rule for one cell of g.
lifeRule(g, c) ==
  \/ g[c[1]][c[2]] /\ liveNeighbours(g, c) \in {2, 3}
  \/ ~g[c[1]][c[2]] /\ liveNeighbours(g, c) = 3

\* setPattern has completed.
Seeded == pc \in {"loop", "advance", "detect", "done"}

\* detectLoop has run for the current generation.
Detected == generation >= 1 /\ pc \in {"loop", "advance", "done"}

\* The grid of generation g.
gridAt(g) == past[g + 1]

\* C1: after one advance every cell is alive iff it was alive with 2 or 3
\* live neighbours, or dead with exactly 3, the neighbours being counted on
\* the grid as it was before the step.
C1_StepAppliesLifeRule ==
  [][pc = "advance" =>
       \A c \in Cells : grid'[c[1]][c[2]] = lifeRule(grid, c)]_vars

\* A generation in which cells were born, died, survived and stayed dead.
C1_Witness ==
  /\ generation = 1
  /\ pc = "detect"
  /\ \E b, d, s, e \in Cells :
       /\ ~gridAt(0)[b[1]][b[2]] /\ grid[b[1]][b[2]]
       /\ gridAt(0)[d[1]][d[2]] /\ ~grid[d[1]][d[2]]
       /\ gridAt(0)[s[1]][s[2]] /\ grid[s[1]][s[2]]
       /\ ~gridAt(0)[e[1]][e[2]] /\ ~grid[e[1]][e[2]]

\* C2: once seeded, currentAliveCells is the number of live cells of the
\* grid, after seeding and after every advance.
C2_AliveCountIsLiveCells ==
  Seeded => currentAliveCells = Cardinality(liveCells(grid))

\* C3: seeding leaves totalBirths and totalDeaths at 0; an advance adds the
\* number of cells that turned alive to totalBirths, the number that turned
\* dead to totalDeaths, and their difference to currentAliveCells.
C3_CountersFollowStep ==
  [][/\ pc = "seed" => totalBirths' = 0 /\ totalDeaths' = 0
     /\ pc = "advance" =>
          LET born == {c \in Cells : ~grid[c[1]][c[2]] /\ grid'[c[1]][c[2]]}
              died == {c \in Cells : grid[c[1]][c[2]] /\ ~grid'[c[1]][c[2]]}
          IN /\ totalBirths' = totalBirths + Cardinality(born)
             /\ totalDeaths' = totalDeaths + Cardinality(died)
             /\ currentAliveCells' =
                  currentAliveCells + Cardinality(born) - Cardinality(died)]_vars

\* Two generations done, with births and deaths, and cells that kept their
\* state in the last step.
C3_Witness ==
  /\ generation = 2
  /\ totalBirths > 0
  /\ totalDeaths > 0
  /\ liveCells(gridAt(1)) \cap liveCells(grid) # {}
  /\ liveCells(gridAt(1)) # liveCells(grid)

\* The Blinker seeded on a grid on which it does not meet itself.
BlinkerAlone == pattern.name = "Blinker" /\ rows >= 5 /\ cols >= 5

\* The Block seeded on a grid on which it does not meet itself.
BlockAlone == pattern.name = "Block" /\ rows >= 4 /\ cols >= 4

\* C4: for the Blinker alone on its grid, the grid first equals the seeded
\* grid again at generation 2, the detection pass of generation 2 leaves
\* loopLength = 2, and the passes before it leave loopLength = 0.
C4_BlinkerLoopAtGeneration2 ==
  (BlinkerAlone /\ Detected) =>
     /\ generation = 1 => (grid # gridAt(0) /\ loopLength = 0)
     /\ generation = 2 => (grid = gridAt(0) /\ loopLength = 2)

\* C5: for the Block alone on its grid, the first advance leaves the grid
\* as it was, and the detection pass after it leaves loopLength = 1.
C5_BlockLoopAtGeneration1 ==
  (BlockAlone /\ generation = 1) =>
     /\ grid = gridAt(0)
     /\ Detected => loopLength = 1

\* The periods at which the grid of the current generation occurred before.
recurrences == {p \in 1..generation : gridAt(generation - p) = grid}

\* C6: a positive loopLength left by a detection pass is the smallest p > 0
\* for which the grid equals the grid p generations earlier.
C6_LoopLengthIsPeriod ==
  (Detected /\ loopLength > 0) =>
     /\ recurrences # {}
     /\ loopLength \in recurrences
     /\ \A p \in recurrences : loopLength <= p

\* A loop of period above 1 reported, and reported again a generation later.
C6_Witness ==
  /\ Detected
  /\ loopLength > 1
  /\ generation >= loopLength + 2
  /\ gridAt(generation - 1) = gridAt(generation - 1 - loopLength)

\* C7: a detection pass on an all-dead grid sets loopLength to -1, and from
\* then on the grid stays all dead and loopLength stays -1.
C7_ExtinctionIsTerminal ==
  [][/\ (pc = "detect" /\ liveCells(grid) = {}) => loopLength' = 0 - 1
     /\ loopLength = 0 - 1 =>
          (loopLength' = 0 - 1 /\ liveCells(grid') = {})]_vars

\* Extinction detected after live generations, then two further advance and
\* detect rounds.
C7_Witness ==
  /\ loopLength = 0 - 1
  /\ pc = "loop"
  /\ generation >= 4
  /\ liveCells(gridAt(generation - 3)) # {}
  /\ liveCells(gridAt(generation - 2)) = {}

\* C8: once loopLength is positive, no later step changes it.
C8_LoopIsTerminal ==
  [][loopLength > 0 => loopLength' = loopLength]_vars

\* A loop reported, and detectLoop run again at least twice since.
C8_Witness ==
  /\ loopLength > 0
  /\ pc = "loop"
  /\ generation >= 3
  /\ gridAt(generation - 2) = gridAt(generation - 2 - loopLength)

\* C9: from a grid with exactly one live cell, one advance leaves the grid
\* all dead with currentAliveCells = 0, and the detection pass that follows
\* sets loopLength to -1.
C9_SingleCellDies ==
  (generation = 1 /\ Cardinality(liveCells(gridAt(0))) = 1) =>
     /\ liveCells(grid) = {}
     /\ currentAliveCells = 0
     /\ Detected => loopLength = 0 - 1

\* g with the state of cell c inverted.
flipped(g, c) == [g EXCEPT ![c[1]][c[2]] = ~@]

\* C10: countAliveNeighbors returns a value in 0..8 that does not depend on
\* the state of the cell itself.
C10_NeighborCountExcludesSelf ==
  Seeded =>
    \A c \in Cells :
      /\ countAliveNeighbors(grid, c[1], c[2]) \in 0..8
      /\ countAliveNeighbors(flipped(grid, c), c[1], c[2])
           = countAliveNeighbors(grid, c[1], c[2])

\* The cell reached from c by the offset d on the torus.
wrapped(c, d) == << (c[1] + d[1]) % rows, (c[2] + d[2]) % cols >>

\* The grid whose only live cell is x.
onlyAlive(x) ==
  [i \in 0..(rows - 1) |-> [j \in 0..(cols - 1) |-> << i, j >> = x]]

\* C11: the cells countAliveNeighbors counts for a cell are those at the
\* eight offsets wrapped modulo rows and cols (a cell reached by several
\* offsets counts once per offset); on a grid of at least 2 x 2 a live cell
\* at (rows-1, cols-1) is counted for (0, 0).
C11_NeighboursWrapToroidally ==
  Seeded =>
    /\ \A c \in Cells :
         /\ countAliveNeighbors(grid, c[1], c[2]) = liveNeighbours(grid, c)
         /\ \A x \in Cells :
              countAliveNeighbors(onlyAlive(x), c[1], c[2])
                = Cardinality({d \in NeighbourOffsets : wrapped(c, d) = x})
    /\ (rows >= 2 /\ cols >= 2 /\ grid[rows - 1][cols - 1]) =>
         countAliveNeighbors(grid, 0, 0) >= 1

\* A step taken from a grid of at least 3 x 3 whose far corner is alive and
\* counted for (0, 0) across both borders.
C11_Witness ==
  /\ generation = 1
  /\ rows >= 3 /\ cols >= 3
  /\ gridAt(0)[rows - 1][cols - 1]
  /\ countAliveNeighbors(gridAt(0), 0, 0) = 1

\* The cell the offset off of a shape is meant to mark: the anchor
\* (rows/2, cols/2) plus the offset, wrapped modulo rows and cols.
toroidalTarget(off) ==
  << ((rows \div 2) + off[1]) % rows, ((cols \div 2) + off[2]) % cols >>

\* C12: shaped seeding computes for every offset the index of the cell at
\* anchor + offset wrapped onto the grid, so every index lies inside the
\* grid, and it marks live exactly those cells.
C12_SeedingWrapsIntoGrid ==
  /\ (pc = "seed" /\ pattern.name # "Random") =>
       \A k \in 1..Len(pattern.cells) :
         /\ inGrid(seedTarget(pattern.cells[k]))
         /\ seedTarget(pattern.cells[k]) = toroidalTarget(pattern.cells[k])
  /\ (Seeded /\ generation = 0 /\ pattern.name # "Random") =>
       liveCells(grid) =
         {toroidalTarget(pattern.cells[k]) : k \in 1..Len(pattern.cells)}

\* C13: generation starts at 0, every computeNextGeneration adds exactly 1
\* to it, and no other step changes it.
C13_GenerationCountsAdvances ==
  /\ generation = 0
  /\ [][IF pc = "advance"
        THEN generation' = generation + 1
        ELSE generation' = generation]_vars

\* Two advances made, and the detection pass after the second one done.
C13_Witness ==
  /\ generation = 2
  /\ pc = "loop"
  /\ Len(past) = 3

\* C14: with detectLoop run after every advance, a grid of rows x cols cells
\* has left loopLength = 0 (extinction or loop) by generation
\* 2^(rows*cols) + 1.
C14_DetectionWithinHorizon ==
  (Detected /\ generation >= DetectHorizon) => loopLength # 0

\* A run on a grid of at least 3 cells that went on up to the horizon and
\* has a loop of period above 1 reported.
C14_Witness ==
  /\ Detected
  /\ generation = DetectHorizon
  /\ rows * cols >= 3
  /\ loopLength > 1

\* C15: computeNextGeneration is not run any more once loopLength has left
\* 0, whether by extinction or by a loop.
C15_NoAdvanceAfterDetection ==
  pc = "advance" => loopLength = 0

\* C16: generation never exceeds MAX_GENERATIONS, however often the driving
\* loop of a variant asks for the next generation.
C16_GenerationCeiling ==
  generation <= MAX_GENERATIONS

\* C17: a grid with rows <= 0 or cols <= 0 is never constructed
\* (construction fails), so setPattern with a shape, whose first statement
\* takes a remainder modulo rows and cols, is never reached with a
\* non-positive rows or cols.
C17_DegenerateGridFailsConstruction ==
  /\ (rows <= 0 \/ cols <= 0) => pc = "failed"
  /\ (pc = "seed" /\ pattern.name # "Random") => (rows > 0 /\ cols > 0)

\* C18: a pass of selectPattern accepts the input exactly when it is a
\* number in 0..|PATTERNS|-1 and then holds that catalog entry; any other
\* input leaves the pattern as it was and prompts again; no pass touches
\* the grid, the counters or the history, and the prompt is left only with
\* a catalog entry selected.
C18_SelectionValidated ==
  [][pc = "select" =>
       /\ \A in \in Inputs :
            IF ~in.fail /\ in.value \in 0..(Len(PATTERNS) - 1)
            THEN selectOutcome(in, pattern)
                   = [pattern |-> PATTERNS[in.value + 1], pc |-> "seed"]
            ELSE selectOutcome(in, pattern)
                   = [pattern |-> pattern, pc |-> "select"]
       /\ UNCHANGED << grid, generation, currentAliveCells, totalBirths,
                       totalDeaths, loopLength, generationHistory >>
       /\ pc' = "select" => pattern' = pattern
       /\ pc' # "select" =>
            /\ pc' = "seed"
            /\ \E i \in 1..Len(PATTERNS) : pattern' = PATTERNS[i]]_vars

\* The prompt left with the last entry of the catalog.
C18_Witness ==
  /\ pc = "seed"
  /\ pattern = PATTERNS[Len(PATTERNS)]
  /\ grid = emptyGrid(rows, cols)

\* The grids of the generations run so far.
pastGrids == {past[k] : k \in 1..Len(past)}

\* C19: serializeGrid yields rows*cols symbols, the symbol of cell (i, j) at
\* place i*cols + j; two grids serialize alike iff their live cells are the
\* same.
C19_SerializationIsFaithful ==
  Seeded =>
    /\ Len(serializeGrid(grid)) = rows * cols
    /\ \A c \in Cells :
         serializeGrid(grid)[c[1] * cols + c[2] + 1]
           = (IF grid[c[1]][c[2]] THEN "1" ELSE "0")
    /\ \A g \in pastGrids :
         (serializeGrid(g) = serializeGrid(grid))
           <=> (liveCells(g) = liveCells(grid))
    /\ \A c \in Cells :
         serializeGrid(flipped(grid, c)) # serializeGrid(grid)

\* A grid of several rows and columns whose key is in the history, with an
\* equal and a different grid among the earlier generations.
C19_Witness ==
  /\ Detected
  /\ rows >= 2 /\ cols >= 2
  /\ serializeGrid(grid) \in DOMAIN generationHistory
  /\ \E g, h \in 0..(generation - 1) :
       gridAt(g) = grid /\ gridAt(h) # grid

\* The generations for which detectLoop has run.
observedGenerations ==
  IF pc = "detect" THEN 1..(generation - 1) ELSE 1..generation

\* The generations at which detectLoop looked key up in the history.
timesObserved(key) ==
  {g \in observedGenerations :
     liveCells(gridAt(g)) # {} /\ serializeGrid(gridAt(g)) = key}

\* C20 as stated: every key of the history holds the first generation at
\* which detectLoop observed that grid, so recording a key again does not
\* change its index.
C20_HistoryHoldsFirstObservation ==
  Seeded =>
    \A key \in DOMAIN generationHistory :
      /\ timesObserved(key) # {}
      /\ \A g \in timesObserved(key) : generationHistory[key] <= g

\* C20 amended: every key of the history holds the latest generation at
\* which detectLoop observed that grid; recording a key again overwrites
\* its index with the current generation.
C20_HistoryHoldsLatestObservation ==
  Seeded =>
    \A key \in DOMAIN generationHistory :
      /\ generationHistory[key] \in timesObserved(key)
      /\ \A g \in timesObserved(key) : generationHistory[key] >= g

\* A key that detectLoop has recorded at least twice.
C20_Witness ==
  /\ Detected
  /\ \E key \in DOMAIN generationHistory :
       Cardinality(timesObserved(key)) >= 2

\* C21: detectLoop changes neither the grid, the generation count nor the
\* birth, death and alive counters; on an all-dead grid it sets loopLength
\* to -1 and leaves the history as it was, whatever the history holds (also
\* when the all-dead key is in it).
C21_ExtinctPassLeavesHistory ==
  [][pc = "detect" =>
       /\ UNCHANGED << grid, generation, currentAliveCells, totalBirths,
                       totalDeaths >>
       /\ liveCells(grid) = {} =>
            /\ loopLength' = 0 - 1
            /\ generationHistory' = generationHistory
            /\ LET h == recordState(generationHistory, serializeGrid(grid), 0)
               IN detectLoop(grid, generation, loopLength, h)
                    = [loopLength |-> 0 - 1, generationHistory |-> h]]_vars

\* Extinction detected with live generations already in the history.
C21_Witness ==
  /\ pc = "loop"
  /\ loopLength = 0 - 1
  /\ liveCells(grid) = {}
  /\ Cardinality(DOMAIN generationHistory) >= 2
  /\ Cardinality(DOMAIN generationHistory) = generation - 1

\* C22: no step removes a key from the history, only detectLoop changes it,
\* and it adds at most one key per pass.
C22_HistoryOnlyGrows ==
  [][/\ DOMAIN generationHistory \subseteq DOMAIN generationHistory'
     /\ Cardinality(DOMAIN generationHistory')
          <= Cardinality(DOMAIN generationHistory) + 1
     /\ pc # "detect" => generationHistory' = generationHistory]_vars

\* A history of several keys, after passes that added a key and passes that
\* added none.
C22_Witness ==
  /\ Detected
  /\ Cardinality(DOMAIN generationHistory) >= 3
  /\ Cardinality(DOMAIN generationHistory) + 2 <= generation

\* The generations, up to the current one, whose grid equals the grid of an
\* earlier generation after the seed.
repeats ==
  {g \in 2..generation : \E h \in 1..(g - 1) : gridAt(h) = gridAt(g)}

\* The least element of a non-empty set of numbers.
least(S) == CHOOSE x \in S : \A y \in S : x <= y

\* C23: after a detection pass that leaves loopLength = 0 the history holds
\* generation entries; once a loop is reported, first at generation g, the
\* history holds g - 1 entries for good, and that is the number displayState
\* shows.
C23_HistorySizeAndDisplay ==
  Detected =>
    /\ loopLength = 0 =>
         Cardinality(DOMAIN generationHistory) = generation
    /\ loopLength > 0 =>
         /\ repeats # {}
         /\ Cardinality(DOMAIN generationHistory) = least(repeats) - 1
         /\ displayState(loopLength, generationHistory).number
              = least(repeats) - 1

\* A loop first reported at generation 3 or later, two passes ago or more.
C23_Witness ==
  /\ Detected
  /\ loopLength > 0
  /\ repeats # {}
  /\ least(repeats) >= 3
  /\ generation >= least(repeats) + 2

\* The generations, up to the current one, whose grid equals the seed.
seedReturns == {p \in 1..generation : gridAt(p) = gridAt(0)}

\* C24: no key of the history holds an index below 1; a positive loopLength
\* is at most generation - 1; and when the seed (with a live cell) returns
\* first after p generations, the pass of generation p reports no loop and
\* the passes from generation p + 1 on report p.
C24_SeedIsNotRecorded ==
  Seeded =>
    /\ \A key \in DOMAIN generationHistory : generationHistory[key] >= 1
    /\ loopLength > 0 => loopLength <= generation - 1
    /\ (Detected /\ liveCells(gridAt(0)) # {} /\ seedReturns # {}) =>
         /\ generation = least(seedReturns) => loopLength = 0
         /\ generation > least(seedReturns) =>
              loopLength = least(seedReturns)

\* A seed of period 2, reported as a loop at generation 3.
C24_Witness ==
  /\ Detected
  /\ generation = 3
  /\ gridAt(1) # gridAt(0)
  /\ gridAt(2) = gridAt(0)
  /\ loopLength = 2
  /\ Cardinality(DOMAIN generationHistory) = 2

====
